---- MODULE Spec2Model ----
(***************************************************************************)
(* Model of the authentication core of kurui-otaku/cascade: the store      *)
(* (tables users and credentials), the registration use case               *)
(* RegisterUserUsecase::create_user and the login use case                  *)
(* LoginUsecase::login, each request a process that is suspended at the     *)
(* .await of every storage call.                                            *)
(*                                                                          *)
(* Strings are sequences of code points, so that prefix tests, byte         *)
(* lengths and concatenation are computed as the code computes them.        *)
(***************************************************************************)
EXTENDS Integers, Sequences, FiniteSets, TLC

\* ------------------------------------------------------------------ bounds

\* Number of registration requests (each one call of create_user).
NumRegs == 2
\* Number of login requests (each one call of login).
NumLogins == 1

Regs == 1..NumRegs
Logins == 1..NumLogins

\* ----------------------------------------------------------------- strings

\* "https://"
HttpsPrefix == <<104, 116, 116, 112, 115, 58, 47, 47>>
\* "/users/"
UsersPath == <<47, 117, 115, 101, 114, 115, 47>>
\* "example.com", the host used when INSTANCE_HOST is not set
DefaultHost == <<101, 120, 97, 109, 112, 108, 101, 46, 99, 111, 109>>
\* a host that INSTANCE_HOST may be set to: "c.io"
OtherHost == <<99, 46, 105, 111>>

\* str::starts_with
StartsWith(s, prefix) ==
    /\ Len(s) >= Len(prefix)
    /\ SubSeq(s, 1, Len(prefix)) = prefix

\* The number of bytes UTF-8 encodes a code point in.
Utf8Width(c) == IF c < 128 THEN 1 ELSE IF c < 2048 THEN 2 ELSE IF c < 65536 THEN 3 ELSE 4

\* str::len: the length of a string in bytes, not in characters.
RECURSIVE Utf8Len(_)
Utf8Len(s) == IF s = <<>> THEN 0 ELSE Utf8Width(Head(s)) + Utf8Len(Tail(s))

\* "http://"
HttpPrefix == <<104, 116, 116, 112, 58, 47, 47>>
\* '/' and '@'
Slash == 47
AtSign == 64

\* str::strip_prefix: the rest of the string after the prefix, if it starts
\* with it.
StripPrefix(s, prefix) ==
    IF StartsWith(s, prefix)
    THEN [some |-> TRUE, rest |-> SubSeq(s, Len(prefix) + 1, Len(s))]
    ELSE [some |-> FALSE, rest |-> <<>>]

\* The positions of the character c in s.
Positions(s, c) == {k \in 1..Len(s) : s[k] = c}

\* Smallest and greatest member of a non-empty set of numbers.
MinOf(S) == CHOOSE k \in S : \A j \in S : k <= j
MaxOf(S) == CHOOSE k \in S : \A j \in S : k >= j

\* s.split('/').next(): what comes before the first '/', all of s when it
\* holds none.
FirstSegment(s) ==
    IF Positions(s, Slash) = {} THEN s
    ELSE SubSeq(s, 1, MinOf(Positions(s, Slash)) - 1)

\* s.rsplit('/').next(): what comes after the last '/', all of s when it
\* holds none.
LastSegment(s) ==
    IF Positions(s, Slash) = {} THEN s
    ELSE SubSeq(s, MaxOf(Positions(s, Slash)) + 1, Len(s))

\* std::env::var("INSTANCE_HOST").unwrap_or_else(|_| "example.com")
InstanceHost(env) == IF env = <<>> THEN DefaultHost ELSE env

\* A derivation that writes the scheme "http://".
FormatActivityIdHttp(host, user_id) == HttpPrefix \o host \o UsersPath \o user_id

\* format!("https://{}/users/{}", instance_host, user_id)
FormatActivityId(host, user_id) == HttpsPrefix \o host \o UsersPath \o user_id

\* ------------------------------------------------------------------ errors

\* DomainError and RepositoryError values, as <<variant, ...>>.
ErrNotFound == <<"Repository", "NotFound">>
ErrDatabase(msg) == <<"Repository", "DatabaseError", msg>>
ErrAuthenticationFailed == <<"AuthenticationFailed">>
ErrInvalidCredentials == <<"InvalidCredentials">>
ErrWeakPassword == <<"WeakPassword">>
ErrEmptyDisplayName == <<"EmptyDisplayName">>
ErrInvalidActivityId == <<"InvalidActivityId">>

\* The messages a DatabaseError carries in the model: a violated table
\* constraint, a fault of the connection, a fault of the token encoder.
MsgConstraint == "constraint violation"
MsgConnection == "connection error"
MsgToken == "Failed to generate token"

IsRepositoryError(e) == Len(e) >= 1 /\ e[1] = "Repository"

\* The kind of a failure: its variant, and for a Repository error the variant
\* of the RepositoryError in it; the message a DatabaseError carries is free
\* text and no part of the kind.
ErrorKind(e) == IF IsRepositoryError(e) THEN <<e[1], e[2]>> ELSE <<e[1]>>

\* ---------------------------------------------------------- identity model

\* A constructor that takes "http://" for a scheme as well.
ActivityIdNewAnyHttp(value) ==
    IF ~StartsWith(value, HttpsPrefix) /\ ~StartsWith(value, HttpPrefix)
    THEN [ok |-> FALSE, err |-> ErrInvalidActivityId, value |-> <<>>]
    ELSE [ok |-> TRUE, err |-> <<>>, value |-> value]

\* ActivityId::new: Err(InvalidActivityId) unless the value starts with
\* "https://".
ActivityIdNew(value) ==
    IF ~StartsWith(value, HttpsPrefix)
    THEN [ok |-> FALSE, err |-> ErrInvalidActivityId, value |-> <<>>]
    ELSE [ok |-> TRUE, err |-> <<>>, value |-> value]

\* ActivityId::as_str: the string an ActivityId was made of.
ActivityIdAsStr(made) == made.value

\* An Option is <<>> for None and <<v>> for Some(v).
NoUser == [id |-> 0, activity_id |-> <<>>, display_name |-> <<>>, icon_url |-> <<>>]

\* A constructor that forgets the icon it is given.
UserNewWithoutIcon(id, activity_id, display_name, icon_url) ==
    IF display_name = <<>>
    THEN [ok |-> FALSE, err |-> ErrEmptyDisplayName, user |-> NoUser]
    ELSE [ok |-> TRUE, err |-> <<>>,
          user |-> [id |-> id, activity_id |-> activity_id,
                    display_name |-> display_name, icon_url |-> <<>>]]

\* User::new: Err(EmptyDisplayName) iff the display name is empty.
UserNew(id, activity_id, display_name, icon_url) ==
    IF display_name = <<>>
    THEN [ok |-> FALSE, err |-> ErrEmptyDisplayName, user |-> NoUser]
    ELSE [ok |-> TRUE, err |-> <<>>,
          user |-> [id |-> id, activity_id |-> activity_id,
                    display_name |-> display_name, icon_url |-> icon_url]]

\* ------------------------------------------------------- password hashing

\* The minimum length of a plaintext; the code compares it with str::len,
\* the length in bytes.
MinPasswordLen == 8

\* Argon2 of a plaintext under a salt: a digest that determines both.
Argon2Digest(plain, salt) == <<plain, salt>>

\* The PHC string "$argon2id$...$salt$digest" that hash_password(..).to_string()
\* produces, as <<algorithm, salt, digest>>.
PhcString(plain, salt) == <<"$argon2id", salt, Argon2Digest(plain, salt)>>

\* A stored hash that is no PHC string.
MalformedHash == <<"not-a-phc-string">>

\* The algorithm identifiers of the PHC strings of the model: the one
\* Argon2::default() writes and one that Argon2 does not verify.
PhcAlgorithms == {"$argon2id", "$scrypt"}

\* Argon2Hash::new: parses a PHC string of any algorithm, and fails on
\* anything else.
Argon2HashNew(h) ==
    IF Len(h) = 3 /\ h[1] \in PhcAlgorithms
    THEN [ok |-> TRUE, algorithm |-> h[1], salt |-> h[2], digest |-> h[3]]
    ELSE [ok |-> FALSE, algorithm |-> "", salt |-> 0, digest |-> <<>>]

\* Argon2::verify_password(..).is_ok(): the hash is Argon2's and the
\* plaintext hashes to its digest under its salt.
Argon2VerifyPassword(plain, parsed) ==
    /\ parsed.algorithm = "$argon2id"
    /\ Argon2Digest(plain, parsed.salt) = parsed.digest

\* A hasher that hashes a plaintext of any length.
HasherHashAnyLength(plain, salt) ==
    [ok |-> TRUE, err |-> <<>>, hash |-> PhcString(plain, salt)]

\* Argon2PasswordHasher::hash: WeakPassword under 8 bytes, else the PHC
\* string of the plaintext under a fresh salt.
HasherHash(plain, salt) ==
    IF Utf8Len(plain) < MinPasswordLen
    THEN [ok |-> FALSE, err |-> ErrWeakPassword, hash |-> <<>>]
    ELSE [ok |-> TRUE, err |-> <<>>, hash |-> PhcString(plain, salt)]

\* A verification that takes every plaintext for the right one.
HasherVerifyAlwaysValid(plain, h) ==
    LET parsed == Argon2HashNew(h) IN
    IF ~parsed.ok
    THEN [ok |-> FALSE, err |-> ErrInvalidCredentials, valid |-> FALSE]
    ELSE [ok |-> TRUE, err |-> <<>>, valid |-> TRUE]

\* A verification that reports a password that does not match as an error.
HasherVerifyStrict(plain, h) ==
    LET parsed == Argon2HashNew(h) IN
    IF ~parsed.ok \/ ~Argon2VerifyPassword(plain, parsed)
    THEN [ok |-> FALSE, err |-> ErrInvalidCredentials, valid |-> FALSE]
    ELSE [ok |-> TRUE, err |-> <<>>, valid |-> TRUE]

\* Argon2PasswordHasher::verify: Err(InvalidCredentials) when the stored hash
\* does not parse, else Ok(whether the plaintext hashes to the digest).
HasherVerify(plain, h) ==
    LET parsed == Argon2HashNew(h) IN
    IF ~parsed.ok
    THEN [ok |-> FALSE, err |-> ErrInvalidCredentials, valid |-> FALSE]
    ELSE [ok |-> TRUE, err |-> <<>>,
          valid |-> Argon2VerifyPassword(plain, parsed)]

\* A from_password that counts the characters of the plaintext.
HashedPasswordFromPasswordChars(plain, salt) ==
    IF Len(plain) < MinPasswordLen
    THEN [ok |-> FALSE, err |-> ErrWeakPassword, hash |-> <<>>]
    ELSE [ok |-> TRUE, err |-> <<>>, hash |-> PhcString(plain, salt)]

\* HashedPassword::from_password: WeakPassword under 8 bytes, else the PHC
\* string of the plaintext under a fresh salt.
HashedPasswordFromPassword(plain, salt) ==
    IF Utf8Len(plain) < MinPasswordLen
    THEN [ok |-> FALSE, err |-> ErrWeakPassword, hash |-> <<>>]
    ELSE [ok |-> TRUE, err |-> <<>>, hash |-> PhcString(plain, salt)]

\* HashedPassword::verify: false when the hash does not parse, else whether
\* the plaintext hashes to the digest.
HashedPasswordVerify(h, plain) ==
    LET parsed == Argon2HashNew(h) IN
    IF ~parsed.ok THEN FALSE ELSE Argon2VerifyPassword(plain, parsed)

\* Credential::new at instant t.
CredentialNew(id, user_id, password_hash, t) ==
    [id |-> id, user_id |-> user_id, password_hash |-> password_hash,
     created_at |-> t, updated_at |-> t]

\* A change of password that leaves updated_at as it was.
ChangePasswordKeepsTime(credential, new_password_hash, t) ==
    [credential EXCEPT !.password_hash = new_password_hash]

\* Credential::change_password at instant t.
ChangePassword(credential, new_password_hash, t) ==
    [credential EXCEPT !.password_hash = new_password_hash, !.updated_at = t]

\* Credential::validate(is_valid), called by login and not part of the
\* sources at hand: Err(AuthenticationFailed) when the password did not
\* verify (as Credential::verify_password does).
CredentialValidate(is_valid) ==
    IF is_valid THEN [ok |-> TRUE, err |-> <<>>]
    ELSE [ok |-> FALSE, err |-> ErrAuthenticationFailed]

\* ------------------------------------------------------------------- token

\* Uuid::to_string: the text of an id.
UuidToString(id) == <<"uuid", id>>

\* The clock counts half seconds, so that two instants of one second differ.
TicksPerSecond == 2
SecondsPerHour == 3600

\* DateTime::timestamp: the whole seconds of an instant.
Timestamp(t) == t \div TicksPerSecond

\* Duration::hours
DurationHours(h) == h * SecondsPerHour * TicksPerSecond

\* The lifetime JwtTokenGenerator::new gives a generator, in hours.
DefaultExpirationHours == 24

\* JwtTokenGenerator::new and JwtTokenGenerator::with_expiration
JwtTokenGeneratorNew(secret) ==
    [secret |-> secret, expiration_hours |-> DefaultExpirationHours]
JwtTokenGeneratorWithExpiration(secret, expiration_hours) ==
    [secret |-> secret, expiration_hours |-> expiration_hours]

\* The secret main builds its generator with.
TestSecret == "testtoken"

NoToken == [sub |-> <<>>, activity_id |-> <<>>, exp |-> 0, iat |-> 0, key |-> ""]

\* A generator that writes the instant of issue as the expiry.
TokenClaimsNoLifetime(generator, user, t) ==
    [sub |-> UuidToString(user.id), activity_id |-> user.activity_id,
     exp |-> Timestamp(t), iat |-> Timestamp(t), key |-> generator.secret]

\* JwtTokenGenerator::generate at instant t: the claims sub, activity_id,
\* exp and iat, signed with the generator's secret.
TokenClaims(generator, user, t) ==
    LET exp == t + DurationHours(generator.expiration_hours) IN
    [sub |-> UuidToString(user.id), activity_id |-> user.activity_id,
     exp |-> Timestamp(exp), iat |-> Timestamp(t), key |-> generator.secret]

\* ------------------------------------------------------------------- store

\* The rows of table users are [id, activity_id, name], with id the primary
\* key and activity_id UNIQUE; the rows of table credentials are [user_id,
\* activity_id, password_hash, email], with user_id the primary key and a
\* reference to users(id), activity_id UNIQUE and email UNIQUE. (The columns
\* summary, icon, created_at and updated_at are written and never read by
\* the two use cases; the model leaves them out.)

\* The id of the user the test fixture inserts.
TestUuid == 1

\* A generator of ids that gives every request the same one.
NewUuidShared(p) == TestUuid + 1

\* Uuid::new_v4() of request p: a value no other call draws.
NewUuid(p) == TestUuid + p

\* SaltString::generate(OsRng) of request p: a salt no other call draws.
NewSalt(p) == p

\* (mutant) table users without UNIQUE on activity_id
UsersConflictIdOnly(tbl, row) ==
    \E r \in tbl : r.id = row.id

\* (mutant) table users with UNIQUE on name in place of activity_id
UsersConflictOnName(tbl, row) ==
    \E r \in tbl : r.id = row.id \/ r.name = row.name

\* Whether inserting row into table users violates one of its constraints.
UsersConflict(tbl, row) ==
    \E r \in tbl : r.id = row.id \/ r.activity_id = row.activity_id

\* Whether inserting row into table credentials violates one of its
\* constraints, given the rows of table users.
CredentialsConflict(tbl, usersTbl, row) ==
    \/ \E r \in tbl : \/ r.user_id = row.user_id
                      \/ r.activity_id = row.activity_id
                      \/ r.email = row.email
    \/ ~\E u \in usersTbl : u.id = row.user_id

\* ------------------------------------------------------------ input values

\* "tu", the identifier of the fixture's user, and "nu", a new one
TestUserId == <<116, 117>>
NewUserId == <<110, 117>>
\* "t@x", the email of the fixture's credential, and "n@x", a new one
TestEmail == <<116, 64, 120>>
NewEmail == <<110, 64, 120>>
\* "password" (8 bytes), "passw0rd" (8 bytes) and "passwor" (7 bytes)
TestPassword == <<112, 97, 115, 115, 119, 111, 114, 100>>
OtherPassword == <<112, 97, 115, 115, 119, 48, 114, 100>>
ShortPassword == <<112, 97, 115, 115, 119, 111, 114>>
\* "A"
SomeName == <<65>>

UserIds == {TestUserId, NewUserId}
Emails == {TestEmail, NewEmail}
DisplayNames == {<<>>, SomeName}
RegPasswords == {ShortPassword, TestPassword}

\* ------------------------------------------------------------------- state

VARIABLES
    env,          \* the value of INSTANCE_HOST in the process environment, <<>> when unset
    users,        \* table users
    credentials,  \* table credentials
    reg,          \* reg[p]: registration request p
    lg,           \* lg[q]: login request q
    pure,         \* the call of a function of the identity model or the hasher, and what it returned
    now           \* Utc::now(), in ticks

vars == <<env, users, credentials, reg, lg, pure, now>>

NoResult == [status |-> "none", err |-> <<>>, user |-> NoUser, token |-> NoToken]
Failure(e) == [status |-> "err", err |-> e, user |-> NoUser, token |-> NoToken]
Success(user, token) == [status |-> "ok", err |-> <<>>, user |-> user, token |-> token]
\* The caller dropped the future: nothing is returned.
Abandoned == [status |-> "abandoned", err |-> <<>>, user |-> NoUser, token |-> NoToken]

\* ---------------------------------------------------------- boundary layer

\* extract_host: the url without its "https://" or "http://", up to the
\* first '/'; None when it has neither prefix.
ExtractHost(url) ==
    LET https == StripPrefix(url, HttpsPrefix)
        http == StripPrefix(url, HttpPrefix)
    IN IF https.some THEN [some |-> TRUE, host |-> FirstSegment(https.rest)]
       ELSE IF http.some THEN [some |-> TRUE, host |-> FirstSegment(http.rest)]
       ELSE [some |-> FALSE, host |-> <<>>]

\* impl From<User> for UserInfo: acct is the last segment of the activity
\* id, followed by '@' and the id's host unless that host is the value of
\* INSTANCE_HOST read at the conversion.
UserInfoFrom(user, e) ==
    LET username == LastSegment(user.activity_id)
        host == ExtractHost(user.activity_id)
        self_host == InstanceHost(e)
        acct == IF host.some
                THEN IF host.host = self_host THEN username
                     ELSE username \o <<AtSign>> \o host.host
                ELSE username
    IN [id |-> UuidToString(user.id), acct |-> acct,
        display_name |-> user.display_name]

NoUserInfo == [id |-> <<>>, acct |-> <<>>, display_name |-> <<>>]

\* No response has been sent.
NoResponse == [status |-> "none", message |-> "", token |-> NoToken, user |-> NoUserInfo]

\* The login handler: 200 with the token and the UserInfo, and 401 with one
\* message for every Err.
LoginHandler(result, e) ==
    IF result.status = "ok"
    THEN [status |-> "200 OK", message |-> "", token |-> result.token,
          user |-> UserInfoFrom(result.user, e)]
    ELSE [status |-> "401 Unauthorized", message |-> "Authentication failed",
          token |-> NoToken, user |-> NoUserInfo]

\* The register handler: 201 with the token and the UserInfo, and 400 with
\* one message for every Err.
RegisterHandler(result, e) ==
    IF result.status = "ok"
    THEN [status |-> "201 Created", message |-> "", token |-> result.token,
          user |-> UserInfoFrom(result.user, e)]
    ELSE [status |-> "400 Bad Request", message |-> "Registration failed",
          token |-> NoToken, user |-> NoUserInfo]

\* A call that has returned is answered by its handler at once; one still
\* suspended is not.
RegisterReturns(r, e) ==
    IF r.pc = "done" THEN [r EXCEPT !.response = RegisterHandler(r.result, e)]
    ELSE r
LoginReturns(l, e) ==
    IF l.pc = "done" THEN [l EXCEPT !.response = LoginHandler(l.result, e)]
    ELSE l

\* A registration request before create_user is called.
IdleReg ==
    [pc |-> "idle", user_id |-> <<>>, display_name |-> <<>>, password |-> <<>>,
     email |-> <<>>, instance_host |-> <<>>, activity_id |-> <<>>,
     password_hash |-> <<>>, id |-> 0,
     result |-> NoResult, response |-> NoResponse,
     \* history: what the store held when the call began, what the call wrote
     pre_user |-> {}, pre_credential |-> {}, pre_email |-> FALSE,
     wrote_user |-> FALSE, wrote_credential |-> FALSE, faulted |-> FALSE,
     \* history: the registrations that had ended when the call began
     after |-> {},
     \* history: the calls of the hasher, the gateways and the token
     \* generator the request has made, in their order
     calls |-> <<>>]

\* A login request before login is called.
IdleLogin ==
    [pc |-> "idle", user_id |-> <<>>, password |-> <<>>, credential_id |-> 0,
     result |-> NoResult, response |-> NoResponse,
     \* history: the step that ended the call, the registrations that had
     \* succeeded when the call began
     ended |-> "none", after |-> {},
     \* history: the registrations that had returned when the call began,
     \* and the calls of the gateways, the hasher and the token generator
     \* the request has made, in their order
     after_done |-> {}, calls |-> <<>>]

\* No function has been called.
NoCall == [op |-> "none"]

\* The store of setup_test_db: one user "test_user" with its credential.
FixtureUsers(host) ==
    {[id |-> TestUuid, activity_id |-> FormatActivityId(host, TestUserId),
      name |-> SomeName]}
FixtureCredentials(host) ==
    {[user_id |-> TestUuid, activity_id |-> FormatActivityId(host, TestUserId),
      password_hash |-> PhcString(TestPassword, 0), email |-> TestEmail]}

Init ==
    /\ env = <<>>
    /\ users = FixtureUsers(InstanceHost(env))
    /\ credentials = FixtureCredentials(InstanceHost(env))
    /\ reg = [p \in Regs |-> IdleReg]
    /\ lg = [q \in Logins |-> IdleLogin]
    /\ pure = NoCall
    /\ now = 0

\* ------------------------------------------------------------ registration

\* PostgresUserRepository::register_user: one INSERT into users, committed
\* on its own. fault: the statement fails for a reason of the connection.
RegisterUserInsert(tbl, row, fault) ==
    IF fault THEN [ok |-> FALSE, err |-> ErrDatabase(MsgConnection), table |-> tbl]
    ELSE IF UsersConflict(tbl, row)
    THEN [ok |-> FALSE, err |-> ErrDatabase(MsgConstraint), table |-> tbl]
    ELSE [ok |-> TRUE, err |-> <<>>, table |-> tbl \cup {row}]

\* An INSERT into credentials that reports success and writes nothing.
CreateCredentialInsertNoWrite(tbl, usersTbl, row, fault) ==
    IF fault THEN [ok |-> FALSE, err |-> ErrDatabase(MsgConnection), table |-> tbl]
    ELSE IF CredentialsConflict(tbl, usersTbl, row)
    THEN [ok |-> FALSE, err |-> ErrDatabase(MsgConstraint), table |-> tbl]
    ELSE [ok |-> TRUE, err |-> <<>>, table |-> tbl]

\* PostgresCredentialRepository::create_credential: one INSERT into
\* credentials, committed on its own.
CreateCredentialInsert(tbl, usersTbl, row, fault) ==
    IF fault THEN [ok |-> FALSE, err |-> ErrDatabase(MsgConnection), table |-> tbl]
    ELSE IF CredentialsConflict(tbl, usersTbl, row)
    THEN [ok |-> FALSE, err |-> ErrDatabase(MsgConstraint), table |-> tbl]
    ELSE [ok |-> TRUE, err |-> <<>>, table |-> tbl \cup {row}]

\* JwtTokenGenerator::generate: the token, or the encoder's error wrapped in
\* Repository(DatabaseError(..)).
GenerateWith(generator, user, fault, t) ==
    IF fault THEN [ok |-> FALSE, err |-> ErrDatabase(MsgToken), token |-> NoToken]
    ELSE [ok |-> TRUE, err |-> <<>>, token |-> TokenClaims(generator, user, t)]

\* generate on the generator main builds, JwtTokenGenerator::new("testtoken"),
\* at the current instant.
Generate(user, fault) ==
    GenerateWith(JwtTokenGeneratorNew(TestSecret), user, fault, now)

\* create_user up to its first .await: derive the activity id, hash the
\* password, call register_user.
RegStart(p, user_id, display_name, password, email) ==
    /\ reg[p].pc = "idle"
    /\ LET aid == ActivityIdNew(FormatActivityId(InstanceHost(env), user_id))
           hashed == HasherHash(password, NewSalt(p))
           call == [reg[p] EXCEPT
                      !.user_id = user_id, !.display_name = display_name,
                      !.password = password, !.email = email,
                      !.instance_host = InstanceHost(env),
                      !.activity_id = aid.value,
                      !.pre_user = {u \in users : u.activity_id = aid.value},
                      !.pre_credential =
                          {c \in credentials : c.activity_id = aid.value},
                      !.pre_email = \E c \in credentials : c.email = email,
                      !.after = {o \in Regs : reg[o].pc = "done"}]
       IN reg' = [reg EXCEPT ![p] = RegisterReturns(
            IF ~aid.ok
            THEN [call EXCEPT !.pc = "done", !.result = Failure(aid.err)]
            ELSE IF ~hashed.ok
            THEN [call EXCEPT !.pc = "done", !.result = Failure(hashed.err),
                              !.calls = <<"hash">>]
            ELSE [call EXCEPT !.pc = "register_user",
                              !.password_hash = hashed.hash,
                              !.calls = <<"hash", "register_user">>], env)]
    /\ UNCHANGED <<env, users, credentials, lg, pure, now>>

\* register_user(..).await? and User::new(..)?: the INSERT into users, then
\* the construction of the User from the id it returned, then the call of
\* create_credential.
RegisterUser(p, fault) ==
    /\ reg[p].pc = "register_user"
    /\ LET r == reg[p]
           ins == RegisterUserInsert(users,
                      [id |-> NewUuid(p), activity_id |-> r.activity_id,
                       name |-> r.display_name], fault)
           made == UserNew(NewUuid(p), r.activity_id, r.display_name, <<>>)
       IN /\ users' = ins.table
          /\ reg' = [reg EXCEPT ![p] = RegisterReturns(
               IF ~ins.ok
               THEN [r EXCEPT !.pc = "done", !.result = Failure(ins.err),
                              !.faulted = fault]
               ELSE IF ~made.ok
               THEN [r EXCEPT !.pc = "done", !.result = Failure(made.err),
                              !.id = NewUuid(p), !.wrote_user = TRUE]
               ELSE [r EXCEPT !.pc = "create_credential", !.id = NewUuid(p),
                              !.wrote_user = TRUE,
                              !.calls = Append(@, "create_credential")], env)]
    /\ UNCHANGED <<env, credentials, lg, pure, now>>

\* create_credential(..).await?, generate(&user)? and Ok(LoginResult): the
\* INSERT into credentials, then the token.
CreateCredential(p, fault, tokenFault) ==
    /\ reg[p].pc = "create_credential"
    /\ LET r == reg[p]
           user == UserNew(r.id, r.activity_id, r.display_name, <<>>).user
           ins == CreateCredentialInsert(credentials, users,
                      [user_id |-> r.id, activity_id |-> r.activity_id,
                       password_hash |-> r.password_hash, email |-> r.email],
                      fault)
           token == Generate(user, tokenFault)
       IN /\ credentials' = ins.table
          /\ reg' = [reg EXCEPT ![p] = RegisterReturns(
               IF ~ins.ok
               THEN [r EXCEPT !.pc = "done", !.result = Failure(ins.err),
                              !.faulted = fault]
               ELSE IF ~token.ok
               THEN [r EXCEPT !.pc = "done", !.result = Failure(token.err),
                              !.wrote_credential = TRUE, !.faulted = TRUE,
                              !.calls = Append(@, "generate")]
               ELSE [r EXCEPT !.pc = "done",
                              !.result = Success(user, token.token),
                              !.wrote_credential = TRUE,
                              !.calls = Append(@, "generate")], env)]
    /\ UNCHANGED <<env, users, lg, pure, now>>

\* The caller drops the future of create_user while it is suspended at an
\* .await: the call takes no further step.
AbandonReg(p) ==
    /\ reg[p].pc \in {"register_user", "create_credential"}
    /\ reg' = [reg EXCEPT ![p].pc = "done", ![p].result = Abandoned]
    /\ UNCHANGED <<env, users, credentials, lg, pure, now>>

RegStep(p) ==
    \/ \E user_id \in UserIds, display_name \in DisplayNames,
          password \in RegPasswords, email \in Emails :
            RegStart(p, user_id, display_name, password, email)
    \/ \E fault \in BOOLEAN : RegisterUser(p, fault)
    \/ \E fault \in BOOLEAN, tokenFault \in BOOLEAN :
            CreateCredential(p, fault, tokenFault)
    \/ AbandonReg(p)

\* Registrations only, any number of them in flight at once.
NextReg == \E p \in Regs : RegStep(p)

SpecReg == Init /\ [][NextReg]_vars

\* ------------------------------------------------------------------- login

\* The identifiers a login is tried with: the raw identifiers and the
\* activity ids derived from them.
LoginIds == UserIds \cup {FormatActivityId(DefaultHost, i) : i \in UserIds}
LoginPasswords == {TestPassword, OtherPassword}

\* PostgresCredentialRepository::get_credential: the row of credentials
\* whose activity_id column equals the key it is called with.
GetCredentialFind(tbl, key, fault) ==
    IF fault THEN [ok |-> FALSE, err |-> ErrDatabase(MsgConnection), rows |-> {}]
    ELSE LET found == {c \in tbl : c.activity_id = key} IN
         IF found = {} THEN [ok |-> FALSE, err |-> ErrNotFound, rows |-> {}]
         ELSE [ok |-> TRUE, err |-> <<>>, rows |-> found]

\* A lookup that returns a row of users whatever its id.
FindByIdAnyUser(tbl, id, fault) ==
    IF fault THEN [ok |-> FALSE, err |-> ErrDatabase(MsgConnection), some |-> FALSE, user |-> NoUser]
    ELSE IF tbl = {} THEN [ok |-> TRUE, err |-> <<>>, some |-> FALSE, user |-> NoUser]
    ELSE LET model == CHOOSE u \in tbl : TRUE IN
         [ok |-> TRUE, err |-> <<>>, some |-> TRUE,
          user |-> UserNew(model.id, model.activity_id, model.name, <<>>).user]

\* PostgresUserRepository::find_by_id: the row of users with that id, made a
\* User; a row that makes no User is a DatabaseError.
FindById(tbl, id, fault) ==
    IF fault THEN [ok |-> FALSE, err |-> ErrDatabase(MsgConnection), some |-> FALSE, user |-> NoUser]
    ELSE LET found == {u \in tbl : u.id = id} IN
         IF found = {} THEN [ok |-> TRUE, err |-> <<>>, some |-> FALSE, user |-> NoUser]
         ELSE LET model == CHOOSE u \in found : TRUE
                  aid == ActivityIdNew(model.activity_id)
                  made == UserNew(model.id, aid.value, model.name, <<>>)
              IN IF ~aid.ok
                 THEN [ok |-> FALSE, err |-> ErrDatabase("Invalid activity ID"),
                       some |-> FALSE, user |-> NoUser]
                 ELSE IF ~made.ok
                 THEN [ok |-> FALSE, err |-> ErrDatabase("Empty display name"),
                       some |-> FALSE, user |-> NoUser]
                 ELSE [ok |-> TRUE, err |-> <<>>, some |-> TRUE, user |-> made.user]

\* A login that is begun anew once it has returned.
LoginStartAgain(q, user_id, password) ==
    /\ lg[q].pc \in {"idle", "done"}
    /\ lg' = [lg EXCEPT ![q] =
         [lg[q] EXCEPT !.pc = "get_credential", !.user_id = user_id,
                       !.password = password,
                       !.after = {p \in Regs : reg[p].result.status = "ok"},
                       !.after_done = {p \in Regs : reg[p].pc = "done"},
                       !.calls = <<"get_credential">>]]
    /\ UNCHANGED <<env, users, credentials, reg, pure, now>>

\* login up to its first .await: call get_credential with the identifier as
\* it was given.
LoginStart(q, user_id, password) ==
    /\ lg[q].pc = "idle"
    /\ lg' = [lg EXCEPT ![q] =
         [lg[q] EXCEPT !.pc = "get_credential", !.user_id = user_id,
                       !.password = password,
                       !.after = {p \in Regs : reg[p].result.status = "ok"},
                       !.after_done = {p \in Regs : reg[p].pc = "done"},
                       !.calls = <<"get_credential">>]]
    /\ UNCHANGED <<env, users, credentials, reg, pure, now>>

\* A login that calls get_credential a second time when the first call met
\* a fault of the connection.
GetCredentialRetrying(q, fault) ==
    /\ lg[q].pc = "get_credential"
    /\ LET l == lg[q]
           got == GetCredentialFind(credentials, l.user_id, fault)
           credential == CHOOSE c \in got.rows : TRUE
           is_valid == HasherVerify(l.password, credential.password_hash)
           validated == CredentialValidate(is_valid.valid)
       IN lg' = [lg EXCEPT ![q] = LoginReturns(
            IF ~got.ok /\ fault /\ Len(l.calls) = 1
            THEN [l EXCEPT !.calls = Append(@, "get_credential")]
            ELSE IF ~got.ok
            THEN [l EXCEPT !.pc = "done", !.result = Failure(got.err),
                           !.ended = IF fault THEN "fault" ELSE "credential_not_found"]
            ELSE IF ~is_valid.ok
            THEN [l EXCEPT !.pc = "done", !.result = Failure(is_valid.err),
                           !.ended = "hash_not_parsed",
                           !.calls = Append(@, "verify")]
            ELSE IF ~validated.ok
            THEN [l EXCEPT !.pc = "done", !.result = Failure(validated.err),
                           !.ended = "password_mismatch",
                           !.calls = Append(@, "verify")]
            ELSE [l EXCEPT !.pc = "find_by_id",
                           !.credential_id = credential.user_id,
                           !.calls = @ \o <<"verify", "find_by_id">>], env)]
    /\ UNCHANGED <<env, users, credentials, reg, pure, now>>

\* get_credential(user_id).await?, verify(..)? and validate(is_valid)?: the
\* lookup of the credential, then the check of the password, then the call
\* of find_by_id.
GetCredential(q, fault) ==
    /\ lg[q].pc = "get_credential"
    /\ LET l == lg[q]
           got == GetCredentialFind(credentials, l.user_id, fault)
           credential == CHOOSE c \in got.rows : TRUE
           is_valid == HasherVerify(l.password, credential.password_hash)
           validated == CredentialValidate(is_valid.valid)
       IN lg' = [lg EXCEPT ![q] = LoginReturns(
            IF ~got.ok
            THEN [l EXCEPT !.pc = "done", !.result = Failure(got.err),
                           !.ended = IF fault THEN "fault" ELSE "credential_not_found"]
            ELSE IF ~is_valid.ok
            THEN [l EXCEPT !.pc = "done", !.result = Failure(is_valid.err),
                           !.ended = "hash_not_parsed",
                           !.calls = Append(@, "verify")]
            ELSE IF ~validated.ok
            THEN [l EXCEPT !.pc = "done", !.result = Failure(validated.err),
                           !.ended = "password_mismatch",
                           !.calls = Append(@, "verify")]
            ELSE [l EXCEPT !.pc = "find_by_id",
                           !.credential_id = credential.user_id,
                           !.calls = @ \o <<"verify", "find_by_id">>], env)]
    /\ UNCHANGED <<env, users, credentials, reg, pure, now>>

\* A login that deletes the credential whose user it does not find.
FindUserCleaningUp(q, fault, tokenFault) ==
    /\ lg[q].pc = "find_by_id"
    /\ LET l == lg[q]
           got == FindById(users, l.credential_id, fault)
           token == Generate(got.user, tokenFault)
       IN /\ lg' = [lg EXCEPT ![q] = LoginReturns(
                IF ~got.ok
                THEN [l EXCEPT !.pc = "done", !.result = Failure(got.err),
                               !.ended = "fault"]
                ELSE IF ~got.some
                THEN [l EXCEPT !.pc = "done", !.result = Failure(ErrNotFound),
                               !.ended = "user_absent"]
                ELSE IF ~token.ok
                THEN [l EXCEPT !.pc = "done", !.result = Failure(token.err),
                               !.ended = "fault",
                               !.calls = Append(@, "generate")]
                ELSE [l EXCEPT !.pc = "done",
                               !.result = Success(got.user, token.token),
                               !.ended = "token_issued",
                               !.calls = Append(@, "generate")], env)]
          /\ credentials' =
                IF got.ok /\ ~got.some
                THEN {c \in credentials : c.activity_id # l.user_id}
                ELSE credentials
    /\ UNCHANGED <<env, users, reg, pure, now>>

\* find_by_id(credential.id()).await?.ok_or(NotFound)?, generate(&user)? and
\* Ok(LoginResult): the lookup of the user, then the token.
FindUser(q, fault, tokenFault) ==
    /\ lg[q].pc = "find_by_id"
    /\ LET l == lg[q]
           got == FindById(users, l.credential_id, fault)
           token == Generate(got.user, tokenFault)
       IN lg' = [lg EXCEPT ![q] = LoginReturns(
            IF ~got.ok
            THEN [l EXCEPT !.pc = "done", !.result = Failure(got.err),
                           !.ended = "fault"]
            ELSE IF ~got.some
            THEN [l EXCEPT !.pc = "done", !.result = Failure(ErrNotFound),
                           !.ended = "user_absent"]
            ELSE IF ~token.ok
            THEN [l EXCEPT !.pc = "done", !.result = Failure(token.err),
                           !.ended = "fault",
                           !.calls = Append(@, "generate")]
            ELSE [l EXCEPT !.pc = "done",
                           !.result = Success(got.user, token.token),
                           !.ended = "token_issued",
                           !.calls = Append(@, "generate")], env)]
    /\ UNCHANGED <<env, users, credentials, reg, pure, now>>

LoginStep(q) ==
    \/ \E user_id \in LoginIds, password \in LoginPasswords :
            LoginStart(q, user_id, password)
    \/ \E fault \in BOOLEAN : GetCredential(q, fault)
    \/ \E fault \in BOOLEAN, tokenFault \in BOOLEAN : FindUser(q, fault, tokenFault)

\* Logins next to one registration.
NextLogin ==
    \/ \E p \in {1} : RegStep(p)
    \/ \E q \in Logins : LoginStep(q)

SpecLogin == Init /\ [][NextLogin]_vars

\* A registration whose future is polled until it returns.
RegStepLive(p) ==
    \/ \E user_id \in UserIds, display_name \in DisplayNames,
          password \in RegPasswords, email \in Emails :
            RegStart(p, user_id, display_name, password, email)
    \/ \E fault \in BOOLEAN : RegisterUser(p, fault)
    \/ \E fault \in BOOLEAN, tokenFault \in BOOLEAN :
            CreateCredential(p, fault, tokenFault)

\* The registrations that run next to the logins.
LiveRegs == {p \in Regs : p = 1}

NextLive ==
    \/ \E p \in LiveRegs : RegStepLive(p)
    \/ \E q \in Logins : LoginStep(q)

\* Every call of a gateway, of the hasher and of the token generator returns:
\* a request that waits on one takes its next step.
Fairness ==
    /\ \A p \in LiveRegs :
          /\ WF_vars(\E fault \in BOOLEAN : RegisterUser(p, fault))
          /\ WF_vars(\E fault \in BOOLEAN, tokenFault \in BOOLEAN :
                        CreateCredential(p, fault, tokenFault))
    /\ \A q \in Logins :
          /\ WF_vars(\E fault \in BOOLEAN : GetCredential(q, fault))
          /\ WF_vars(\E fault \in BOOLEAN, tokenFault \in BOOLEAN :
                        FindUser(q, fault, tokenFault))

SpecLive == Init /\ [][NextLive]_vars /\ Fairness

\* A row of users is deleted by another client of the database; the
\* credentials row that references it goes with it (ON DELETE CASCADE).
DeleteUser(id) ==
    /\ \E u \in users : u.id = id
    /\ users' = {u \in users : u.id # id}
    /\ credentials' = {c \in credentials : c.user_id # id}
    /\ UNCHANGED <<env, reg, lg, pure, now>>

\* Logins and one registration against a store whose rows may be deleted.
NextDelete ==
    \/ NextLogin
    \/ \E u \in users : DeleteUser(u.id)

SpecDelete == Init /\ [][NextDelete]_vars

\* ------------------------------------------------------------- environment

\* The values INSTANCE_HOST takes: unset, or the other host.
EnvValues == {<<>>, OtherHost}
Hosts == {InstanceHost(e) : e \in EnvValues}

\* The operator of the process sets or unsets INSTANCE_HOST (std::env is
\* global to the process and read by create_user and by the conversion to
\* UserInfo whenever they run).
SetInstanceHost(h) ==
    /\ env # h
    /\ env' = h
    /\ UNCHANGED <<users, credentials, reg, lg, pure, now>>

\* Registrations in a process whose environment changes.
NextEnv ==
    \/ NextReg
    \/ \E h \in EnvValues : SetInstanceHost(h)

SpecEnv == Init /\ [][NextEnv]_vars

\* ------------------------------------------------------------------- acct

\* "a/b", an identifier that holds the separator of the activity id's path
SlashUserId == <<97, 47, 98>>
AcctUserIds == UserIds \cup {SlashUserId}

\* A registration of any of these identifiers.
RegStepAcct(p) ==
    \/ \E user_id \in AcctUserIds, email \in Emails :
            RegStart(p, user_id, SomeName, TestPassword, email)
    \/ \E fault \in BOOLEAN : RegisterUser(p, fault)
    \/ \E fault \in BOOLEAN, tokenFault \in BOOLEAN :
            CreateCredential(p, fault, tokenFault)

\* A login with the activity id of any of these identifiers.
LoginStepAcct(q) ==
    \/ \E user_id \in AcctUserIds, password \in LoginPasswords :
            LoginStart(q, FormatActivityId(DefaultHost, user_id), password)
    \/ \E fault \in BOOLEAN : GetCredential(q, fault)
    \/ \E fault \in BOOLEAN, tokenFault \in BOOLEAN : FindUser(q, fault, tokenFault)

NextAcct ==
    \/ \E p \in {1} : RegStepAcct(p)
    \/ \E q \in Logins : LoginStepAcct(q)

SpecAcct == Init /\ [][NextAcct]_vars

\* ----------------------------------------------------- independent requests

\* "o@x", a third email
OtherEmail == <<111, 64, 120>>
PairEmails == Emails \cup {OtherEmail}

\* A registration, with a display name and a strong password, of any of
\* three identifiers with any of three emails.
RegStepPair(p) ==
    \/ \E user_id \in AcctUserIds, email \in PairEmails :
            RegStart(p, user_id, SomeName, TestPassword, email)
    \/ \E fault \in BOOLEAN : RegisterUser(p, fault)
    \/ \E fault \in BOOLEAN, tokenFault \in BOOLEAN :
            CreateCredential(p, fault, tokenFault)

\* Registrations that run side by side.
NextPair == \E p \in Regs : RegStepPair(p)

SpecPair == Init /\ [][NextPair]_vars

\* ------------------------------------------------- calls of the functions

\* Greatest number of characters of the plaintexts handed to the hasher.
MaxPlainLen == 9

\* 'a' (1 byte), 'e' with an acute accent (2 bytes), katakana 'te' (3
\* bytes) and an emoji (4 bytes)
PlainChars == {97, 233, 12486, 128512}

\* The string of n characters c.
Repeat(c, n) == [k \in 1..n |-> c]

Plaintexts ==
    {Repeat(c, n) : c \in PlainChars, n \in 0..MaxPlainLen}
        \cup {TestPassword, OtherPassword, ShortPassword}

\* The salts OsRng draws in the model.
Salts == {0} \cup {NewSalt(p) : p \in Regs}

\* The plaintexts and the stored hashes verification is tried with: PHC
\* strings of Argon2, a PHC string of another algorithm, and strings that
\* are no PHC strings.
VerifyPlaintexts == {<<>>, ShortPassword, TestPassword, OtherPassword, Repeat(12486, 3)}
StoredHashes ==
    {PhcString(x, s) : x \in {TestPassword, OtherPassword}, s \in Salts}
        \cup {<<"$scrypt", s, Argon2Digest(TestPassword, s)>> : s \in Salts}
        \cup {MalformedHash, <<>>}

\* The strings an ActivityId is made of: "", "http://x", "https:/",
\* "xhttps://", "Https://x", "https://", "https://x", and derived ids.
HttpX == HttpPrefix \o <<120>>
HttpsOneSlash == <<104, 116, 116, 112, 115, 58, 47>>
XHttps == <<120>> \o HttpsPrefix
CapitalHttps == <<72, 116, 116, 112, 115, 58, 47, 47, 120>>
HttpsX == HttpsPrefix \o <<120>>
ActivityIdStrings ==
    {<<>>, HttpX, HttpsOneSlash, XHttps, CapitalHttps, HttpsPrefix, HttpsX}
        \cup {FormatActivityId(h, i) : h \in Hosts, i \in AcctUserIds}

\* The arguments of User::new: ids, activity ids, display names ("", "A",
\* " ") and icons (None, Some(""), Some("https://x")).
UserNewIds == {TestUuid} \cup {NewUuid(p) : p \in Regs}
UserNewActivityIds == {FormatActivityId(h, TestUserId) : h \in Hosts}
UserNewDisplayNames == {<<>>, SomeName, <<32>>}
UserNewIcons == {<<>>, <<<<>>>>, <<HttpsX>>}

\* Argon2PasswordHasher::hash is called.
HashCall(plain, salt) ==
    /\ pure' = [op |-> "hash", plain |-> plain, salt |-> salt,
                ret |-> HasherHash(plain, salt)]
    /\ UNCHANGED <<env, users, credentials, reg, lg, now>>

\* Argon2PasswordHasher::verify is called with the plaintext and the hash of
\* the call of hash that has just succeeded.
VerifyHashedCall ==
    /\ pure.op = "hash" /\ pure.ret.ok
    /\ pure' = [op |-> "verify_hashed", plain |-> pure.plain,
                hash |-> pure.ret.hash,
                ret |-> HasherVerify(pure.plain, pure.ret.hash)]
    /\ UNCHANGED <<env, users, credentials, reg, lg, now>>

\* Argon2PasswordHasher::verify is called with any plaintext and stored hash.
VerifyCall(plain, h) ==
    /\ pure' = [op |-> "verify", plain |-> plain, hash |-> h,
                ret |-> HasherVerify(plain, h)]
    /\ UNCHANGED <<env, users, credentials, reg, lg, now>>

\* HashedPassword::from_password is called.
FromPasswordCall(plain, salt) ==
    /\ pure' = [op |-> "from_password", plain |-> plain, salt |-> salt,
                ret |-> HashedPasswordFromPassword(plain, salt)]
    /\ UNCHANGED <<env, users, credentials, reg, lg, now>>

\* HashedPassword::verify is called on the hash of the call of
\* from_password that has just succeeded, with its plaintext.
VerifyFromPasswordCall ==
    /\ pure.op = "from_password" /\ pure.ret.ok
    /\ pure' = [op |-> "verify_from_password", plain |-> pure.plain,
                hash |-> pure.ret.hash,
                ret |-> HashedPasswordVerify(pure.ret.hash, pure.plain)]
    /\ UNCHANGED <<env, users, credentials, reg, lg, now>>

\* HashedPassword::verify is called on any stored hash with any plaintext.
HashedPasswordVerifyCall(h, plain) ==
    /\ pure' = [op |-> "hashed_password_verify", plain |-> plain, hash |-> h,
                ret |-> HashedPasswordVerify(h, plain)]
    /\ UNCHANGED <<env, users, credentials, reg, lg, now>>

\* Argon2PasswordHasher::hash and HashedPassword::from_password are called
\* with one plaintext, each drawing its own salt.
BothHashCall(plain, salt, other_salt) ==
    /\ pure' = [op |-> "both_hash", plain |-> plain,
                hasher |-> HasherHash(plain, salt),
                hashed_password |-> HashedPasswordFromPassword(plain, other_salt)]
    /\ UNCHANGED <<env, users, credentials, reg, lg, now>>

\* Argon2PasswordHasher::verify and HashedPassword::verify are called with
\* one plaintext and one stored hash.
BothVerifyCall(plain, h) ==
    /\ pure' = [op |-> "both_verify", plain |-> plain, hash |-> h,
                hasher |-> HasherVerify(plain, h),
                hashed_password |-> HashedPasswordVerify(h, plain)]
    /\ UNCHANGED <<env, users, credentials, reg, lg, now>>

\* ActivityId::new is called, and as_str on what it made.
ActivityIdNewCall(value) ==
    /\ LET made == ActivityIdNew(value) IN
         pure' = [op |-> "activity_id_new", value |-> value, ret |-> made,
                  as_str |-> ActivityIdAsStr(made)]
    /\ UNCHANGED <<env, users, credentials, reg, lg, now>>

\* User::new is called.
UserNewCall(id, activity_id, display_name, icon_url) ==
    /\ pure' = [op |-> "user_new", id |-> id, activity_id |-> activity_id,
                display_name |-> display_name, icon_url |-> icon_url,
                ret |-> UserNew(id, activity_id, display_name, icon_url)]
    /\ UNCHANGED <<env, users, credentials, reg, lg, now>>

\* Greatest instant of the clock.
MaxNow == 3

\* Time passes.
Tick ==
    /\ now < MaxNow
    /\ now' = now + 1
    /\ UNCHANGED <<env, users, credentials, reg, lg, pure>>

\* The generators: the one of JwtTokenGenerator::new and those of
\* with_expiration for lifetimes of 0, 1 and 48 hours.
Generators ==
    {JwtTokenGeneratorNew(TestSecret)}
        \cup {JwtTokenGeneratorWithExpiration(TestSecret, h) : h \in {0, 1, 48}}

\* The users a token is generated for.
GenerateUsers ==
    {UserNew(id, activity_id, SomeName, <<>>).user :
        id \in UserNewIds, activity_id \in UserNewActivityIds}

\* JwtTokenGenerator::generate is called.
GenerateCall(generator, user, fault) ==
    /\ pure' = [op |-> "generate", generator |-> generator, user |-> user,
                at |-> now, ret |-> GenerateWith(generator, user, fault, now)]
    /\ UNCHANGED <<env, users, credentials, reg, lg, now>>

\* The hashes a Credential holds.
CredentialHashes == {PhcString(TestPassword, 0), PhcString(OtherPassword, 1)}

\* Credential::new is called.
CredentialNewCall(id, user_id, password_hash) ==
    /\ LET made == CredentialNew(id, user_id, password_hash, now) IN
         pure' = [op |-> "credential_new", origin |-> made, before |-> made,
                  credential |-> made, new_password_hash |-> password_hash,
                  at |-> now]
    /\ UNCHANGED <<env, users, credentials, reg, lg, now>>

\* Credential::change_password is called on the Credential of the last call.
ChangePasswordCall(new_password_hash) ==
    /\ pure.op \in {"credential_new", "change_password"}
    /\ pure' = [op |-> "change_password", origin |-> pure.origin,
                before |-> pure.credential,
                credential |-> ChangePassword(pure.credential,
                                              new_password_hash, now),
                new_password_hash |-> new_password_hash, at |-> now]
    /\ UNCHANGED <<env, users, credentials, reg, lg, now>>

NextPure ==
    \/ Tick
    \/ \E plain \in Plaintexts, other_salt \in Salts :
            BothHashCall(plain, 0, other_salt)
    \/ \E plain \in VerifyPlaintexts, h \in StoredHashes :
            BothVerifyCall(plain, h)
    \/ \E generator \in Generators, user \in GenerateUsers, fault \in BOOLEAN :
            GenerateCall(generator, user, fault)
    \/ \E id \in UserNewIds, user_id \in UserNewActivityIds,
          password_hash \in CredentialHashes :
            CredentialNewCall(id, user_id, password_hash)
    \/ \E new_password_hash \in CredentialHashes :
            ChangePasswordCall(new_password_hash)
    \/ \E plain \in Plaintexts, salt \in Salts : HashCall(plain, salt)
    \/ VerifyHashedCall
    \/ \E plain \in VerifyPlaintexts, h \in StoredHashes : VerifyCall(plain, h)
    \/ \E plain \in Plaintexts, salt \in Salts : FromPasswordCall(plain, salt)
    \/ VerifyFromPasswordCall
    \/ \E plain \in VerifyPlaintexts, h \in StoredHashes :
            HashedPasswordVerifyCall(h, plain)
    \/ \E value \in ActivityIdStrings : ActivityIdNewCall(value)
    \/ \E id \in UserNewIds, activity_id \in UserNewActivityIds,
          display_name \in UserNewDisplayNames, icon_url \in UserNewIcons :
            UserNewCall(id, activity_id, display_name, icon_url)

SpecPure == Init /\ [][NextPure]_vars

\* ------------------------------------------------------------------ claims

\* The call returned to its caller (it was not abandoned).
Returned(r) == r.pc = "done" /\ r.result.status \in {"ok", "err"}

\* No registration is in flight.
Quiescent == \A p \in Regs : reg[p].pc \in {"idle", "done"}

\* The request passes the two validations of create_user.
WellFormed(r) == r.display_name # <<>> /\ Utf8Len(r.password) >= MinPasswordLen

UserRowsOf(aid) == {u \in users : u.activity_id = aid}
CredentialRowsOf(aid) == {c \in credentials : c.activity_id = aid}

\* C1: whenever no registration is in flight, whatever registrations ran and
\* however each ended, the store holds a User row if and only if it holds the
\* Credential row of that user.
C1_UserIffCredential ==
    Quiescent =>
        /\ \A u \in users : \E c \in credentials : c.user_id = u.id
        /\ \A c \in credentials : \E u \in users : u.id = c.user_id

\* C2: a well-formed registration that meets no fault, whose email was in use
\* and whose identifier was not when it began, fails and has written no row.
C2_DuplicateEmailLeavesStoreUnchanged ==
    \A p \in Regs :
        LET r == reg[p] IN
        (/\ Returned(r) /\ WellFormed(r) /\ ~r.faulted
         /\ r.pre_email /\ r.pre_user = {} /\ r.pre_credential = {})
        => /\ r.result.status = "err"
           /\ ~r.wrote_user /\ ~r.wrote_credential
           /\ ~\E u \in users : u.id = NewUuid(p)
           /\ ~\E c \in credentials : c.user_id = NewUuid(p)

\* C3: a registration whose derived activity id was registered (User and
\* Credential) when it began fails, writes nothing, and leaves exactly that
\* one User and that one Credential under the activity id.
C3_DuplicateIdentifierRejected ==
    \A p \in Regs :
        LET r == reg[p] IN
        (Returned(r) /\ r.pre_user # {} /\ r.pre_credential # {})
        => /\ r.result.status = "err"
           /\ ~r.wrote_user /\ ~r.wrote_credential
           /\ UserRowsOf(r.activity_id) = r.pre_user
           /\ CredentialRowsOf(r.activity_id) = r.pre_credential
           /\ Cardinality(UserRowsOf(r.activity_id)) = 1
           /\ Cardinality(CredentialRowsOf(r.activity_id)) = 1

\* C3 witness: a registration of the fixture's identifier with a strong
\* password was refused by the constraint of table users.
C3_Witness ==
    \E p \in Regs :
        /\ Returned(reg[p]) /\ WellFormed(reg[p])
        /\ reg[p].pre_user # {} /\ reg[p].pre_credential # {}
        /\ reg[p].result = Failure(ErrDatabase(MsgConstraint))

\* Two registrations race for one identifier: both are well-formed and meet
\* no fault, both began before any row of the identifier was in the store,
\* neither email was in use, and no other request shares their identifier or
\* their emails.
RaceForIdentifier(p, q) ==
    /\ p # q
    /\ Returned(reg[p]) /\ Returned(reg[q])
    /\ reg[p].user_id = reg[q].user_id
    /\ reg[p].activity_id = reg[q].activity_id
    /\ WellFormed(reg[p]) /\ WellFormed(reg[q])
    /\ ~reg[p].faulted /\ ~reg[q].faulted
    /\ reg[p].pre_user = {} /\ reg[q].pre_user = {}
    /\ ~reg[p].pre_email /\ ~reg[q].pre_email
    /\ \A o \in Regs \ {p, q} :
        \/ reg[o].pc = "idle"
        \/ /\ reg[o].activity_id # reg[p].activity_id
           /\ reg[o].email \notin {reg[p].email, reg[q].email}

\* C4: of two registrations that race for one identifier, exactly one
\* succeeds and the other fails on the violated constraint.
C4_SameIdentifierExactlyOneWins ==
    \A p, q \in Regs :
        RaceForIdentifier(p, q) =>
            \/ /\ reg[p].result.status = "ok"
               /\ reg[q].result = Failure(ErrDatabase(MsgConstraint))
            \/ /\ reg[q].result.status = "ok"
               /\ reg[p].result = Failure(ErrDatabase(MsgConstraint))

\* C4 witness: such a race has ended, the later caller of register_user the
\* winner's rival.
C4_Witness ==
    \E p, q \in Regs :
        /\ RaceForIdentifier(p, q)
        /\ reg[p].result.status = "ok"
        /\ reg[q].result = Failure(ErrDatabase(MsgConstraint))

\* C5: a login that ends because no credential was found and a login that
\* ends because the password did not match both return AuthenticationFailed.
C5_UnknownAndWrongPasswordSameFailure ==
    \A q \in Logins :
        (lg[q].pc = "done"
         /\ lg[q].ended \in {"credential_not_found", "password_mismatch"})
        => lg[q].result = Failure(ErrAuthenticationFailed)

\* C6: a login that began after registration p had succeeded, with the
\* identifier and the password p was called with, and that meets no fault,
\* succeeds and returns the User that p returned.
C6_LoginAfterRegistrationSucceeds ==
    \A q \in Logins : \A p \in lg[q].after :
        (/\ lg[q].pc = "done" /\ lg[q].ended # "fault"
         /\ lg[q].user_id = reg[p].user_id
         /\ lg[q].password = reg[p].password)
        => /\ lg[q].result.status = "ok"
           /\ lg[q].result.user = reg[p].result.user

\* C7: a failing login returns AuthenticationFailed when the credential was
\* not found or the password did not match, a repository error when a fault
\* ended it, and no other error.
C7_LoginFailureKinds ==
    \A q \in Logins :
        LET l == lg[q] IN
        (l.pc = "done" /\ l.result.status = "err")
        => /\ \/ l.result.err = ErrAuthenticationFailed
              \/ IsRepositoryError(l.result.err)
           /\ l.ended \in {"credential_not_found", "password_mismatch"}
                => l.result.err = ErrAuthenticationFailed
           /\ l.ended = "fault" => IsRepositoryError(l.result.err)

\* C8: a login whose credential verified and whose user is absent fails with
\* a repository error that is not AuthenticationFailed and that differs from
\* what login returns when no credential is found and when the password does
\* not match.
C8_AbsentUserDistinguishable ==
    \A q \in Logins :
        LET l == lg[q] IN
        (l.pc = "done" /\ l.ended = "user_absent")
        => /\ l.result.status = "err"
           /\ IsRepositoryError(l.result.err)
           /\ l.result.err # ErrAuthenticationFailed
           /\ l.result.err # GetCredentialFind({}, l.user_id, FALSE).err
           /\ l.result.err # CredentialValidate(FALSE).err

\* C9: at every instant, also while a registration is in flight or after its
\* caller abandoned it, the store holds the User row a registration wrote if
\* and only if it holds the Credential row of that registration.
C9_NoPartialWriteObservable ==
    \A p \in Regs :
        (\E u \in users : u.id = NewUuid(p))
        <=> (\E c \in credentials : c.user_id = NewUuid(p))

\* C10: a registration that fails with WeakPassword or EmptyDisplayName has
\* written no row, and a later well-formed registration of the same
\* identifier and email, which were free when the failed one began and which
\* no other request uses, succeeds when it meets no fault.
C10_ValidationFailureLeavesStoreUnchanged ==
    \A p \in Regs :
        (Returned(reg[p])
         /\ reg[p].result.err \in {ErrWeakPassword, ErrEmptyDisplayName})
        => /\ ~reg[p].wrote_user /\ ~reg[p].wrote_credential
           /\ ~\E u \in users : u.id = NewUuid(p)
           /\ \A q \in Regs :
                (/\ p \in reg[q].after /\ Returned(reg[q])
                 /\ reg[q].user_id = reg[p].user_id
                 /\ reg[q].email = reg[p].email
                 /\ WellFormed(reg[q]) /\ ~reg[q].faulted
                 /\ reg[p].pre_user = {} /\ reg[p].pre_credential = {}
                 /\ ~reg[p].pre_email
                 /\ \A o \in Regs \ {p, q} :
                      \/ reg[o].pc = "idle"
                      \/ /\ reg[o].activity_id # reg[p].activity_id
                         /\ reg[o].email # reg[p].email)
                => reg[q].result.status = "ok"

C12_ConflictIsItsOwnKind ==
    \A p \in Regs :
        (Returned(reg[p]) /\ reg[p].result.err = ErrDatabase(MsgConstraint))
        => /\ ErrorKind(reg[p].result.err) # ErrorKind(ErrDatabase(MsgConnection))
           /\ ErrorKind(reg[p].result.err) # ErrorKind(ErrAuthenticationFailed)

\* C13: a login that a fault of the storage or of the token encoder ended is
\* not answered as a login that failed authentication is, and a registration
\* that such a fault ended is not answered as a registration that met a
\* conflict is.
C13_BoundaryTellsFaultFromDenial ==
    /\ \A q \in Logins :
          lg[q].ended = "fault"
          => lg[q].response # LoginHandler(Failure(ErrAuthenticationFailed), env)
    /\ \A p \in Regs :
          (Returned(reg[p]) /\ reg[p].faulted)
          => reg[p].response
               # RegisterHandler(Failure(ErrDatabase(MsgConstraint)), env)

\* No other request uses the identifier or the email of registration p.
Unrivalled(p) ==
    \A o \in Regs \ {p} :
        \/ reg[o].pc = "idle"
        \/ /\ reg[o].activity_id # reg[p].activity_id
           /\ reg[o].email # reg[p].email

\* C14: a registration of identifier i with a display name and a strong
\* password, which found no row of its identifier or email, has no rival and
\* meets no fault, succeeds; it returns a token and a User whose activity id
\* is "https://" host "/users/" i, and no registration whatever fails for
\* its derived activity id.
C14_WellFormedRegistrationSucceeds ==
    /\ \A p \in Regs :
          (/\ Returned(reg[p]) /\ WellFormed(reg[p]) /\ ~reg[p].faulted
           /\ reg[p].pre_user = {} /\ reg[p].pre_credential = {}
           /\ ~reg[p].pre_email /\ Unrivalled(p))
          => /\ reg[p].result.status = "ok"
             /\ reg[p].result.user.activity_id
                  = HttpsPrefix \o reg[p].instance_host \o UsersPath
                      \o reg[p].user_id
             /\ reg[p].result.user.display_name = reg[p].display_name
             /\ reg[p].result.token # NoToken
             /\ reg[p].result.token.activity_id
                  = reg[p].result.user.activity_id
    /\ \A p \in Regs : reg[p].result.err # ErrInvalidActivityId
    /\ \A h \in Hosts, i \in AcctUserIds \cup {<<>>} :
          ActivityIdNew(FormatActivityId(h, i)).ok

\* C14 witness: such a registration has returned a User and a token.
C14_Witness ==
    \E p \in Regs :
        /\ Returned(reg[p]) /\ WellFormed(reg[p]) /\ ~reg[p].faulted
        /\ reg[p].pre_user = {} /\ reg[p].pre_credential = {}
        /\ ~reg[p].pre_email /\ Unrivalled(p)
        /\ reg[p].result.status = "ok"
        /\ reg[p].user_id = NewUserId

\* The length of a string in characters.
CharLen(s) == Len(s)

\* C15: hashing a plaintext of fewer than 8 characters fails with
\* WeakPassword, hashing one of 8 characters or more succeeds, and verifying
\* a plaintext against the hash just made of it returns true.
C15_EightCharactersAndRoundTrip ==
    /\ pure.op \in {"hash", "from_password"}
       => IF CharLen(pure.plain) < MinPasswordLen
          THEN ~pure.ret.ok /\ pure.ret.err = ErrWeakPassword
          ELSE pure.ret.ok
    /\ pure.op = "verify_hashed" => pure.ret.ok /\ pure.ret.valid
    /\ pure.op = "verify_from_password" => pure.ret

\* h is the hash of the plaintext under some salt.
IsHashOf(h, plain) == \E s \in Salts : h = PhcString(plain, s)

\* h has the three parts of a PHC string.
WellFormedHash(h) == Len(h) = 3 /\ h[1] \in PhcAlgorithms

\* C16: verification of a plaintext against a well-formed stored hash that
\* is not a hash of it returns false and no error; verification returns an
\* error only for a stored hash that is not well-formed.
C16_MismatchIsFalseNotError ==
    /\ pure.op = "verify"
       => /\ (WellFormedHash(pure.hash) /\ ~IsHashOf(pure.hash, pure.plain))
               => pure.ret.ok /\ ~pure.ret.valid
          /\ ~pure.ret.ok => ~WellFormedHash(pure.hash)
    /\ pure.op = "hashed_password_verify"
       => ((WellFormedHash(pure.hash) /\ ~IsHashOf(pure.hash, pure.plain))
           => pure.ret = FALSE)

\* C16 witness: a plaintext has been verified against a well-formed hash of
\* another plaintext.
C16_Witness ==
    /\ pure.op = "verify"
    /\ WellFormedHash(pure.hash) /\ ~IsHashOf(pure.hash, pure.plain)
    /\ pure.hash = PhcString(OtherPassword, 0)
    /\ pure.plain = TestPassword

\* C17: every two registrations that were submitted derived their activity
\* ids from one host, whatever INSTANCE_HOST was set to in between, and the
\* acct of a registration's response was formatted with the host its
\* activity id was derived from.
C17_HostFixedAcrossCalls ==
    /\ \A p, q \in Regs :
          (reg[p].pc # "idle" /\ reg[q].pc # "idle")
          => reg[p].instance_host = reg[q].instance_host
    /\ \A p \in Regs :
          reg[p].result.status = "ok"
          => reg[p].response.user
               = UserInfoFrom(reg[p].result.user, reg[p].instance_host)

\* C18: the acct of the response to a registration that succeeded is the
\* identifier it registered, and so is the acct of the response to every
\* login that returned the user of that registration.
C18_AcctIsTheIdentifier ==
    \A p \in Regs :
        reg[p].result.status = "ok"
        => /\ reg[p].response.user.acct = reg[p].user_id
           /\ \A q \in Logins :
                (lg[q].result.status = "ok"
                 /\ lg[q].result.user.id = reg[p].result.user.id)
                => lg[q].response.user.acct = reg[p].user_id

\* value begins with the eight characters "https://".
BeginsWithHttps(value) ==
    /\ Len(value) >= Len(HttpsPrefix)
    /\ \A k \in 1..Len(HttpsPrefix) : value[k] = HttpsPrefix[k]

\* C19: making an ActivityId of a string that does not begin with
\* "https://" fails with InvalidActivityId; making one of a string that does
\* succeeds, and as_str of it is that string.
C19_ActivityIdHttpsRoundTrip ==
    pure.op = "activity_id_new"
    => IF BeginsWithHttps(pure.value)
       THEN pure.ret.ok /\ pure.as_str = pure.value
       ELSE ~pure.ret.ok /\ pure.ret.err = ErrInvalidActivityId

\* C19 witness: an ActivityId has been made of "https://x", and another
\* refused for "http://x".
C19_Witness ==
    /\ pure.op = "activity_id_new"
    /\ pure.value \in {HttpsX, HttpX}
    /\ pure.ret.ok <=> pure.value = HttpsX

\* C20: User::new fails, with EmptyDisplayName, exactly when the display
\* name is empty; otherwise the User it makes has the id, the activity id,
\* the display name and the icon it was given.
C20_UserNewEmptyDisplayName ==
    pure.op = "user_new"
    => /\ ~pure.ret.ok <=> pure.display_name = <<>>
       /\ ~pure.ret.ok => pure.ret.err = ErrEmptyDisplayName
       /\ pure.ret.ok
            => /\ pure.ret.user.id = pure.id
               /\ pure.ret.user.activity_id = pure.activity_id
               /\ pure.ret.user.display_name = pure.display_name
               /\ pure.ret.user.icon_url = pure.icon_url

\* C20 witness: a User has been made with a display name of one space and
\* an icon.
C20_Witness ==
    /\ pure.op = "user_new"
    /\ pure.display_name = <<32>>
    /\ pure.icon_url = <<HttpsX>>
    /\ pure.ret.ok

\* C21: a token that generate issued holds the text of the user's id as its
\* subject and the user's activity id, its issued-at is the second of the
\* instant of the call, and its expiry is its issued-at plus the
\* generator's lifetime: 86400 seconds for a generator made by
\* JwtTokenGenerator::new.
C21_TokenClaimsAndExpiry ==
    (pure.op = "generate" /\ pure.ret.ok)
    => LET token == pure.ret.token IN
       /\ token.sub = UuidToString(pure.user.id)
       /\ token.activity_id = pure.user.activity_id
       /\ token.iat * TicksPerSecond <= pure.at
       /\ pure.at < (token.iat + 1) * TicksPerSecond
       /\ token.exp = token.iat + pure.generator.expiration_hours * SecondsPerHour
       /\ pure.generator = JwtTokenGeneratorNew(TestSecret)
            => token.exp = token.iat + 86400

\* C21 witness: the generator of JwtTokenGenerator::new has issued a token
\* in the middle of a second.
C21_Witness ==
    /\ pure.op = "generate" /\ pure.ret.ok
    /\ pure.generator = JwtTokenGeneratorNew(TestSecret)
    /\ pure.at = 1

\* The steps of login that call a gateway, the hasher or the token
\* generator, in the order of the protocol.
LoginOrder == <<"get_credential", "verify", "find_by_id", "generate">>
\* The same for registration.
RegisterOrder == <<"hash", "register_user", "create_credential", "generate">>

IsPrefix(s, t) == Len(s) <= Len(t) /\ s = SubSeq(t, 1, Len(s))
Made(calls, name) == \E k \in 1..Len(calls) : calls[k] = name

\* C22: the calls a login has made are a prefix of fetch credential, verify
\* password, fetch user, issue token; the user is fetched only for a login
\* whose credential was found and holds a hash of its password; and a login
\* that ended because the credential was not found, or the verification
\* returned an error or false, fetched no user, issued no token and failed.
C22_LoginStepsInOrder ==
    \A q \in Logins :
        /\ IsPrefix(lg[q].calls, LoginOrder)
        /\ Made(lg[q].calls, "find_by_id")
             => \E c \in credentials :
                    /\ c.activity_id = lg[q].user_id
                    /\ c.user_id = lg[q].credential_id
                    /\ IsHashOf(c.password_hash, lg[q].password)
        /\ lg[q].ended \in {"credential_not_found", "hash_not_parsed",
                             "password_mismatch"}
             => /\ ~Made(lg[q].calls, "find_by_id")
                /\ ~Made(lg[q].calls, "generate")
                /\ lg[q].result.status = "err"
                /\ lg[q].result.token = NoToken
        /\ lg[q].result.status = "ok" => lg[q].calls = LoginOrder

\* C22 witness: a login with a wrong password has ended after the
\* verification.
C22_Witness ==
    \E q \in Logins :
        /\ lg[q].ended = "password_mismatch"
        /\ lg[q].calls = <<"get_credential", "verify">>
        /\ lg[q].pc = "done"

\* C23: a registration that has returned success returned a token, and the
\* store holds the User row and the Credential row of its derived activity
\* id; and a registration that has called a storage gateway had called the
\* hasher first and holds the hash of its password.
C23_SuccessMeansBothPersisted ==
    \A p \in Regs :
        /\ reg[p].result.status = "ok"
             => /\ reg[p].result.token # NoToken
                /\ reg[p].result.user.activity_id = reg[p].activity_id
                /\ \E u \in users :
                      u.id = reg[p].id /\ u.activity_id = reg[p].activity_id
                /\ \E c \in credentials :
                      /\ c.user_id = reg[p].id
                      /\ c.activity_id = reg[p].activity_id
                      /\ c.password_hash = reg[p].password_hash
        /\ (Made(reg[p].calls, "register_user") \/ reg[p].wrote_user)
             => /\ reg[p].calls[1] = "hash"
                /\ IsHashOf(reg[p].password_hash, reg[p].password)

\* C23 witness: a registration of the new identifier has returned success.
C23_Witness ==
    \E p \in Regs :
        /\ reg[p].result.status = "ok"
        /\ reg[p].user_id = NewUserId
        /\ reg[p].calls = RegisterOrder

\* C24: the User a successful login returns has the id the verified
\* Credential names as its owner, that Credential is the one found for the
\* identifier of the login and holds a hash of its password, the User is the
\* row of users with that id, and the token's subject and activity id are
\* those of that User.
C24_LoginReturnsOwnerOfCredential ==
    \A q \in Logins :
        lg[q].result.status = "ok"
        => LET user == lg[q].result.user
               token == lg[q].result.token
           IN /\ user.id = lg[q].credential_id
              /\ \E c \in credentials :
                    /\ c.activity_id = lg[q].user_id
                    /\ c.user_id = user.id
                    /\ IsHashOf(c.password_hash, lg[q].password)
              /\ \E u \in users :
                    /\ u.id = user.id
                    /\ u.activity_id = user.activity_id
                    /\ u.name = user.display_name
              /\ token.sub = UuidToString(user.id)
              /\ token.activity_id = user.activity_id

\* C24 witness: a login of the user registered by request 1 has succeeded
\* while the store holds the fixture's user too.
C24_Witness ==
    \E q \in Logins :
        /\ lg[q].result.status = "ok"
        /\ lg[q].result.user.id = NewUuid(1)
        /\ \E u \in users : u.id = TestUuid

\* Number of times a call was made.
TimesMade(calls, name) == Cardinality({k \in 1..Len(calls) : calls[k] = name})
LastCall(calls) == calls[Len(calls)]

\* C25: a login and a registration make each call of a gateway, of the
\* hasher and of the token generator at most once, and a request that has
\* failed has returned, the call that failed being the last it made.
C25_NoStepIsRetried ==
    /\ \A q \in Logins :
          /\ \A k \in 1..Len(LoginOrder) :
                TimesMade(lg[q].calls, LoginOrder[k]) <= 1
          /\ lg[q].result.status = "err"
               => /\ lg[q].pc = "done"
                  /\ lg[q].ended = "credential_not_found"
                       => LastCall(lg[q].calls) = "get_credential"
                  /\ lg[q].ended \in {"hash_not_parsed", "password_mismatch"}
                       => LastCall(lg[q].calls) = "verify"
                  /\ lg[q].ended = "user_absent"
                       => LastCall(lg[q].calls) = "find_by_id"
                  /\ lg[q].result.err = ErrDatabase(MsgToken)
                       => LastCall(lg[q].calls) = "generate"
                  /\ lg[q].result.err = ErrDatabase(MsgConnection)
                       => LastCall(lg[q].calls) \in {"get_credential", "find_by_id"}
    /\ \A p \in Regs :
          /\ \A k \in 1..Len(RegisterOrder) :
                TimesMade(reg[p].calls, RegisterOrder[k]) <= 1
          /\ reg[p].result.status = "err"
               => /\ reg[p].pc = "done"
                  /\ reg[p].result.err = ErrWeakPassword
                       => reg[p].calls = <<"hash">>
                  /\ reg[p].result.err = ErrDatabase(MsgToken)
                       => LastCall(reg[p].calls) = "generate"
                  /\ IsRepositoryError(reg[p].result.err)
                       /\ reg[p].result.err # ErrDatabase(MsgToken)
                       => LastCall(reg[p].calls)
                            = IF reg[p].wrote_user THEN "create_credential"
                              ELSE "register_user"

\* C25 witness: a login has failed on a fault of the connection at its
\* first call and a registration at its second gateway call.
C25_Witness ==
    /\ \E q \in Logins :
          /\ lg[q].result.err = ErrDatabase(MsgConnection)
          /\ lg[q].calls = <<"get_credential">>
    /\ \E p \in Regs :
          /\ reg[p].result.err = ErrDatabase(MsgConnection)
          /\ LastCall(reg[p].calls) = "create_credential"

\* C26: a step of a login, whichever way it ends, leaves the rows of users
\* and the rows of credentials as they were; the store has no other table.
C26_LoginLeavesStoreUnchanged ==
    [][lg' # lg => (users' = users /\ credentials' = credentials)]_vars

\* C26 witness: a login has ended because the user of its credential was
\* absent, and one has ended with a token.
C26_Witness ==
    \E q \in Logins :
        /\ lg[q].pc = "done"
        /\ lg[q].ended = "user_absent"
        /\ credentials # {}

\* Registrations p and q of different identifiers and different emails, with
\* display names and strong passwords, that met no fault, found no row of
\* their identifiers and emails, and have no rival among the other requests.
Independent(p, q) ==
    /\ p # q
    /\ Returned(reg[p]) /\ Returned(reg[q])
    /\ reg[p].activity_id # reg[q].activity_id
    /\ reg[p].email # reg[q].email
    /\ \A r \in {p, q} :
          /\ WellFormed(reg[r]) /\ ~reg[r].faulted
          /\ reg[r].pre_user = {} /\ reg[r].pre_credential = {}
          /\ ~reg[r].pre_email
          /\ \A o \in Regs \ {p, q} :
                \/ reg[o].pc = "idle"
                \/ /\ reg[o].activity_id # reg[r].activity_id
                   /\ reg[o].email # reg[r].email

\* The rows a successful registration r writes.
UserRowOf(r) ==
    [id |-> NewUuid(r), activity_id |-> reg[r].activity_id,
     name |-> reg[r].display_name]
CredentialRowOf(r) ==
    [user_id |-> NewUuid(r), activity_id |-> reg[r].activity_id,
     password_hash |-> reg[r].password_hash, email |-> reg[r].email]

\* C27: two independent registrations succeed both, whether their steps
\* interleaved or one ran after the other, and the store holds for each
\* exactly the rows it holds when that registration runs alone.
C27_IndependentRegistrationsBothSucceed ==
    \A p, q \in Regs :
        Independent(p, q)
        => \A r \in {p, q} :
             /\ reg[r].result.status = "ok"
             /\ UserRowsOf(reg[r].activity_id) = {UserRowOf(r)}
             /\ CredentialRowsOf(reg[r].activity_id) = {CredentialRowOf(r)}
             /\ {c \in credentials : c.email = reg[r].email} = {CredentialRowOf(r)}

\* C27 witness: two independent registrations have returned, each having
\* begun before the other ended.
C27_Witness ==
    \E p, q \in Regs :
        /\ Independent(p, q)
        /\ p \notin reg[q].after /\ q \notin reg[p].after
        /\ reg[p].result.status = "ok" /\ reg[q].result.status = "ok"

\* C28: change_password puts the new hash and the instant of the call into
\* the credential and leaves its id, its owner and created_at as they were;
\* and a credential made by Credential::new has, after any number of
\* changes under a clock that does not go back, the id, the owner and the
\* created_at it was made with, and updated_at >= created_at.
C28_ChangePasswordFrame ==
    /\ pure.op = "change_password"
         => /\ pure.credential.password_hash = pure.new_password_hash
            /\ pure.credential.updated_at = pure.at
            /\ pure.credential.id = pure.before.id
            /\ pure.credential.user_id = pure.before.user_id
            /\ pure.credential.created_at = pure.before.created_at
    /\ pure.op \in {"credential_new", "change_password"}
         => /\ pure.credential.id = pure.origin.id
            /\ pure.credential.user_id = pure.origin.user_id
            /\ pure.credential.created_at = pure.origin.created_at
            /\ pure.credential.updated_at >= pure.credential.created_at

\* C28 witness: the password of a credential has been changed a second
\* time, to another hash, at a later instant than the first.
C28_Witness ==
    /\ pure.op = "change_password"
    /\ pure.before.updated_at > pure.before.created_at
    /\ pure.at > pure.before.updated_at
    /\ pure.new_password_hash # pure.before.password_hash

\* The terminal state of a request: TokenIssued with a token and a user, or
\* Failed with an error, and never both.
Terminal(result) ==
    \/ /\ result.status = "ok" /\ result.err = <<>>
       /\ result.token # NoToken /\ result.user # NoUser
    \/ /\ result.status = "err" /\ result.err # <<>>
       /\ result.token = NoToken /\ result.user = NoUser

\* C29: when every call returns, a registration and a login that have begun
\* reach a terminal state; a request that has returned is in exactly one
\* terminal state, and takes no step afterwards.
C29_EveryRequestTerminates ==
    /\ \A p \in Regs : (reg[p].pc # "idle") ~> (reg[p].pc = "done")
    /\ \A q \in Logins : (lg[q].pc # "idle") ~> (lg[q].pc = "done")
    /\ [](/\ \A p \in Regs : reg[p].pc = "done" => Terminal(reg[p].result)
          /\ \A q \in Logins : lg[q].pc = "done" => Terminal(lg[q].result))
    /\ [][/\ \A p \in Regs : reg[p].pc = "done" => reg'[p] = reg[p]
          /\ \A q \in Logins : lg[q].pc = "done" => lg'[q] = lg[q]]_vars

\* C29 witness: a login has ended with a token and a registration with a
\* failure.
C29_Witness ==
    /\ \E q \in Logins : lg[q].pc = "done" /\ lg[q].result.status = "ok"
    /\ \E p \in Regs : reg[p].pc = "done" /\ reg[p].result.status = "err"

\* C30: a registration that failed at the issue of its token has left its
\* User row and its Credential row in the store; a login that begins after
\* it with its identifier and its password and meets no fault succeeds; and
\* a registration of its identifier that begins after it fails on the
\* constraint of the table.
C30_TokenFailureLeavesRows ==
    \A p \in Regs :
        (reg[p].pc = "done" /\ reg[p].result.err = ErrDatabase(MsgToken))
        => /\ UserRowOf(p) \in users
           /\ CredentialRowOf(p) \in credentials
           /\ \A q \in Logins :
                (/\ p \in lg[q].after_done /\ lg[q].pc = "done"
                 /\ lg[q].user_id = reg[p].user_id
                 /\ lg[q].password = reg[p].password
                 /\ lg[q].ended # "fault")
                => lg[q].result.status = "ok"
           /\ \A o \in Regs \ {p} :
                (/\ p \in reg[o].after /\ Returned(reg[o])
                 /\ reg[o].user_id = reg[p].user_id
                 /\ WellFormed(reg[o]) /\ ~reg[o].faulted)
                => reg[o].result.err = ErrDatabase(MsgConstraint)

\* C31: HashedPassword::from_password and Argon2PasswordHasher::hash refuse
\* the same plaintexts, with the same error; HashedPassword::verify returns
\* true exactly when Argon2PasswordHasher::verify returns Ok(true); and
\* against a stored hash that is not well-formed neither returns true.
C31_PasswordImplementationsAgree ==
    /\ pure.op = "both_hash"
         => /\ pure.hasher.ok <=> pure.hashed_password.ok
            /\ ~pure.hasher.ok => pure.hasher.err = pure.hashed_password.err
    /\ pure.op = "both_verify"
         => /\ pure.hashed_password <=> (pure.hasher.ok /\ pure.hasher.valid)
            /\ ~WellFormedHash(pure.hash)
                 => /\ ~pure.hashed_password
                    /\ ~(pure.hasher.ok /\ pure.hasher.valid)

\* C31 witness: both have hashed a plaintext of two characters and eight
\* bytes.
C31_Witness ==
    /\ pure.op = "both_hash"
    /\ Len(pure.plain) = 2 /\ Utf8Len(pure.plain) = 8
    /\ pure.hasher.ok /\ pure.hashed_password.ok

====
